---- MODULE Spec2Model ----
(***************************************************************************)
(* A model of the pandoc-filter helpers of mdpdf-filter:                   *)
(*   pandocfilters.py : walk, applyJSONFilters, stringify, elt             *)
(*   mdpdf.py         : get_code_in_para                                   *)
(*                                                                         *)
(* JSON values are modelled as tagged records:                             *)
(*   [k |-> "s", v |-> string]     a scalar (string)                       *)
(*   [k |-> "none"]                Python None                             *)
(*   [k |-> "l", items |-> seq]    a list                                  *)
(*   [k |-> "d", kv |-> seq]       a dict, as its key/value pairs in       *)
(*                                 insertion order (keys are unique)       *)
(*   [k |-> "err", v |-> name]     a raised exception                      *)
(***************************************************************************)
EXTENDS Integers, Sequences, FiniteSets, TLC

VARIABLES
    tree,     \* the tree handed to the operation
    size,     \* the number of constructors the tree was built with
    pc,       \* "build" while the input is built, "done" once the operation ran
    action,   \* the rewrite action(s) handed to the operation
    out,      \* what the operation returned, or the exception it raised
    calls,    \* the calls of the action, in order (tag and content)
    iters,    \* the iterations of the merge loops of get_code_in_para, in order
    ctor,     \* the constructor called: its tag and its declared arity
    args,     \* the arguments the constructor is called with
    source    \* the JSON text handed to applyJSONFilters, as its tokens

vars == <<tree, size, pc, action, out, calls, iters, ctor, args, source>>

(***************************************************************************)
(* Bounds of the model.                                                    *)
(***************************************************************************)
MaxSize == 4
MaxRewalk == 2

(***************************************************************************)
(* Values.                                                                 *)
(***************************************************************************)
NoneV == [k |-> "none"]
Scalar(s) == [k |-> "s", v |-> s]
List(items) == [k |-> "l", items |-> items]
Pair(key, val) == [key |-> key, val |-> val]
Dict(kv) == [k |-> "d", kv |-> kv]
Err(name) == [k |-> "err", v |-> name]

IsErr(x) == x.k = "err"
IsList(x) == x.k = "l"
IsDict(x) == x.k = "d"

\* `key in d`
HasKey(d, key) == \E i \in DOMAIN d.kv : d.kv[i].key = key
\* `d[key]`
Get(d, key) == d.kv[CHOOSE i \in DOMAIN d.kv : d.kv[i].key = key].val

\* {'t': tag, 'c': content}
Node(tag, content) == Dict(<<Pair("t", Scalar(tag)), Pair("c", content)>>)
\* {'t': tag}: a node that pandoc serialises without content
Node0(tag) == Dict(<<Pair("t", Scalar(tag))>>)

(***************************************************************************)
(* Rewrite actions.  An action is a function of (key, value); the model    *)
(* draws it from the functions of the tag and of whether a content is      *)
(* present, for the tag "X".  Every other node is left unchanged (None).   *)
(***************************************************************************)
ActKeys == {<<"X", FALSE>>, <<"X", TRUE>>}

ResSet ==
    { NoneV,                                         \* unchanged
      Node0("Z"),                                    \* one replacement
      Node("X", Scalar("b")),                        \* same tag again
      Node("Y", List(<<Node0("X")>>)),               \* X nested in the replacement
      List(<<>>),                                    \* delete
      List(<<Node0("Z")>>),                          \* splice of one
      List(<<Node0("Z"), Node("Y", List(<<Node0("W")>>))>>) }  \* splice of two

Actions ==
    {a \in [ActKeys -> ResSet] :
        \/ a[<<"X", FALSE>>] = NoneV
        \/ a[<<"X", TRUE>>] \in {NoneV, Node("Y", List(<<Node0("X")>>))}}

\* action(item['t'], item['c'] if 'c' in item else None, format, meta)
Apply(act, key, value) ==
    LET q == <<key.v, value # NoneV>>
    IN IF key.k = "s" /\ q \in DOMAIN act THEN act[q] ELSE NoneV

(***************************************************************************)
(* walk                                                                    *)
(***************************************************************************)
IsNode(item) == IsDict(item) /\ HasKey(item, "t")

Content(item) == IF HasKey(item, "c") THEN Get(item, "c") ELSE NoneV

Call(item) == [t |-> Get(item, "t"), c |-> Content(item)]

\* What a call of walk gives: the returned tree, or the exception raised,
\* and the calls of the action it made, in order.
Ret(o, cs) == [out |-> o, calls |-> cs]

\* Mutant of KeepItem: an element that is not a node is dropped.
KeepItem_dropped(array, x) == array

\* array.append(x) for an element that is not a node
KeepItem(array, x) == Append(array, x)

\* Mutant of Splice: the walked replacements are appended last to first.
Splice_reversed(array, walked) ==
    array \o [j \in 1..Len(walked) |-> walked[Len(walked) + 1 - j]]

\* array.append(x) for each x of walked, in order
Splice(array, walked) == array \o walked

RECURSIVE walk(_, _, _)

\* Mutant of WalkUnchanged: the unchanged node is walked as a list of one
\* element, which offers it to the action again.
WalkUnchanged_again(item, act, depth) ==
    LET r == walk(List(<<item>>), act, depth + 1)
    IN IF IsErr(r.out) THEN r ELSE Ret(r.out.items[1], r.calls)

\* res is None: walk(item, action, format, meta)
WalkUnchanged(item, act, depth) == walk(item, act, depth)

\* Mutant of Rewalk: the replacement is appended as the action returned it.
Rewalk_skipped(res, act, depth) == Ret(res, <<>>)

\* res is a replacement, or an item of a list of them: walk(res, ...).
\* depth counts the replacements being walked, one inside the other.
Rewalk(res, act, depth) == walk(res, act, depth + 1)

\* What the body of the loop does for one element: the values it appends
\* to array, the exception it raises (None if none), the calls it made.
Step(outs, err, cs) == [outs |-> outs, err |-> err, calls |-> cs]

\* for item in res: array.append(walk(item, ...))
RECURSIVE RewalkEach(_, _, _, _, _, _)
RewalkEach(items, i, walked, cs, act, depth) ==
    IF i > Len(items) THEN Step(walked, NoneV, cs)
    ELSE LET r == Rewalk(items[i], act, depth)
         IN IF IsErr(r.out) THEN Step(walked, r.out, cs \o r.calls)
            ELSE RewalkEach(items, i + 1, Append(walked, r.out),
                            cs \o r.calls, act, depth)

\* array.append(walk(...)) of one tree
AppendWalked(r, cs) ==
    IF IsErr(r.out) THEN Step(<<>>, r.out, cs \o r.calls)
    ELSE Step(<<r.out>>, NoneV, cs \o r.calls)

\* the body of `for item in tree`
WalkItem(item, act, depth) ==
    IF IsNode(item)
    THEN LET res == Apply(act, Get(item, "t"), Content(item))
         IN IF res = NoneV
            THEN AppendWalked(WalkUnchanged(item, act, depth), <<Call(item)>>)
            ELSE IF IsList(res)
            THEN RewalkEach(res.items, 1, <<>>, <<Call(item)>>, act, depth)
            ELSE AppendWalked(Rewalk(res, act, depth), <<Call(item)>>)
    ELSE LET r == walk(item, act, depth)
         IN IF IsErr(r.out) THEN Step(<<>>, r.out, r.calls)
            ELSE Step(KeepItem(<<>>, r.out), NoneV, r.calls)

\* for item in tree: ...
RECURSIVE walkList(_, _, _, _, _, _)
walkList(items, i, array, cs, act, depth) ==
    IF i > Len(items) THEN Ret(List(array), cs)
    ELSE LET r == WalkItem(items[i], act, depth)
         IN IF IsErr(r.err) THEN Ret(r.err, cs \o r.calls)
            ELSE walkList(items, i + 1, Splice(array, r.outs),
                          cs \o r.calls, act, depth)

\* for key in tree: tree[key] = walk(tree[key], ...)
RECURSIVE walkDict(_, _, _, _, _)
walkDict(kv, i, cs, act, depth) ==
    IF i > Len(kv) THEN Ret(Dict(kv), cs)
    ELSE LET r == walk(kv[i].val, act, depth)
         IN IF IsErr(r.out) THEN Ret(r.out, cs \o r.calls)
            ELSE walkDict([kv EXCEPT ![i].val = r.out], i + 1,
                          cs \o r.calls, act, depth)

walk(t, act, depth) ==
    IF depth > MaxRewalk THEN Ret(Err("RecursionError"), <<>>)
    ELSE IF IsList(t) THEN walkList(t.items, 1, <<>>, <<>>, act, depth)
    ELSE IF IsDict(t) THEN walkDict(t.kv, 1, <<>>, act, depth)
    ELSE Ret(t, <<>>)

(***************************************************************************)
(* Input trees are built one constructor at a time, up to MaxSize steps.   *)
(***************************************************************************)
WalkLeaves == {Scalar("a"), Node0("X"), Node("Y", Scalar("a"))}
WalkTags == {"X", "Y"}
Metas == {Dict(<<>>), Dict(<<Pair("title", Node("X", Scalar("a")))>>)}

NotRun == [k |-> "notrun"]

AddItem(leaves) ==
    /\ pc = "build" /\ size < MaxSize /\ IsList(tree)
    /\ \E v \in leaves : tree' = List(Append(tree.items, v))
    /\ size' = size + 1
    /\ UNCHANGED <<pc, action, out, calls, iters, ctor, args, source>>

MakeNode(tags) ==
    /\ pc = "build" /\ size < MaxSize
    /\ \E tag \in tags : tree' = Node(tag, tree)
    /\ size' = size + 1
    /\ UNCHANGED <<pc, action, out, calls, iters, ctor, args, source>>

WrapList ==
    /\ pc = "build" /\ size < MaxSize
    /\ tree' = List(<<tree>>)
    /\ size' = size + 1
    /\ UNCHANGED <<pc, action, out, calls, iters, ctor, args, source>>

WrapDoc(metas) ==
    /\ pc = "build" /\ size < MaxSize
    /\ \E m \in metas : tree' = Dict(<<Pair("meta", m), Pair("blocks", tree)>>)
    /\ size' = size + 1
    /\ UNCHANGED <<pc, action, out, calls, iters, ctor, args, source>>

InitBuild ==
    /\ tree \in {List(<<>>), Scalar("a")}
    /\ size = 0
    /\ pc = "build"
    /\ action = NotRun
    /\ out = NotRun
    /\ calls = <<>>
    /\ iters = <<>>
    /\ ctor = NotRun
    /\ args = <<>>
    /\ source = <<>>

DoWalk ==
    /\ pc = "build"
    /\ \E a \in Actions :
         LET r == walk(tree, a, 0)
         IN /\ action' = a
            /\ out' = r.out
            /\ calls' = r.calls
    /\ pc' = "done"
    /\ UNCHANGED <<tree, size, iters, ctor, args, source>>

Init == InitBuild

\* walk(tree, action, format, meta), for the trees and the actions above
Next ==
    \/ AddItem(WalkLeaves)
    \/ MakeNode(WalkTags)
    \/ WrapList
    \/ WrapDoc(Metas)
    \/ DoWalk

Spec == Init /\ [][Next]_vars

(***************************************************************************)
(* Vocabulary of the properties.                                           *)
(***************************************************************************)
Range(seq) == {seq[i] : i \in DOMAIN seq}
Count(seq, x) == Cardinality({i \in DOMAIN seq : seq[i] = x})

\* The action never replaces anything.
Unchanging(a) == \A q \in DOMAIN a : a[q] = NoneV

\* Every node of a tree, wherever it occurs, as the action would be called
\* on it, in document order.
RECURSIVE NodesOf(_)
RECURSIVE NodesOfEach(_, _)
NodesOfEach(vals, i) ==
    IF i > Len(vals) THEN <<>> ELSE NodesOf(vals[i]) \o NodesOfEach(vals, i + 1)
NodesOf(t) ==
    IF IsList(t) THEN NodesOfEach(t.items, 1)
    ELSE IF IsDict(t)
    THEN (IF HasKey(t, "t") THEN <<Call(t)>> ELSE <<>>)
         \o NodesOfEach([i \in DOMAIN t.kv |-> t.kv[i].val], 1)
    ELSE <<>>

\* The nodes of a tree that are elements of a list and lie in no other such
\* node of the tree.
RECURSIVE OuterElements(_)
OuterElements(t) ==
    IF IsList(t)
    THEN UNION {IF IsDict(t.items[i]) /\ HasKey(t.items[i], "t")
                THEN {Call(t.items[i])} ELSE OuterElements(t.items[i]) :
                i \in DOMAIN t.items}
    ELSE IF IsDict(t) THEN UNION {OuterElements(t.kv[i].val) : i \in DOMAIN t.kv}
    ELSE {}

\* What the action answers to a call.
Answer(c) == Apply(action, c.t, c.c)

\* C1: with an action that always returns unchanged, walk calls the action
\* exactly once for each node of the tree, whether the node is an element of
\* a list or the value of a key.
C1_EveryNodeOnce ==
    (pc = "done" /\ Unchanging(action)) =>
        \A n \in Range(calls) \cup Range(NodesOf(tree)) :
            Count(calls, n) = Count(NodesOf(tree), n)

Replaced(items) ==
    {i \in DOMAIN items :
        /\ IsDict(items[i]) /\ HasKey(items[i], "t")
        /\ Answer(Call(items[i])) # NoneV}

\* C3: when the action returns a list of k items for one element of a list
\* and unchanged for the others, the output has k - 1 more elements, the k
\* walked items are at the element's position in the returned order, and the
\* other elements keep their order around them.
C3_Splice ==
    (pc = "done" /\ ~IsErr(out) /\ IsList(tree)) =>
        \A i \in Replaced(tree.items) :
            (Replaced(tree.items) = {i} /\ IsList(Answer(Call(tree.items[i])))) =>
                LET res == Answer(Call(tree.items[i])).items
                    k == Len(res)
                    n == Len(tree.items)
                IN /\ IsList(out)
                   /\ Len(out.items) = n + k - 1
                   /\ \A j \in 1..(i - 1) :
                        out.items[j] = walk(tree.items[j], action, 0).out
                   /\ \A m \in 1..k :
                        out.items[i + m - 1] = walk(res[m], action, 1).out
                   /\ \A j \in (i + 1)..n :
                        out.items[j + k - 1] = walk(tree.items[j], action, 0).out

C3_Witness ==
    /\ pc = "done" /\ ~IsErr(out) /\ IsList(tree)
    /\ Len(tree.items) = 3
    /\ Replaced(tree.items) = {2}
    /\ IsList(Answer(Call(tree.items[2])))
    /\ Len(Answer(Call(tree.items[2])).items) = 2
    /\ Len(out.items) = 4

\* C4: with an action that always returns unchanged, walk returns a tree
\* equal to its input: same elements in the same order, same keys with
\* equal values, same tags.
C4_Identity ==
    (pc = "done" /\ Unchanging(action)) => out = tree

C4_Witness ==
    /\ pc = "done" /\ Unchanging(action) /\ out = tree
    /\ IsDict(tree) /\ HasKey(tree, "blocks")
    /\ IsList(Get(tree, "blocks")) /\ Len(Get(tree, "blocks").items) >= 2
    /\ \E i \in DOMAIN Get(tree, "blocks").items :
         ~IsDict(Get(tree, "blocks").items[i])

\* The action leaves unchanged every node of every replacement it returns.
Convergent(a) ==
    \A q \in DOMAIN a :
        a[q] # NoneV =>
            \A n \in Range(NodesOf(a[q])) : Apply(a, n.t, n.c) = NoneV

\* C9: walk returns a tree for every action whose replacements converge;
\* it fails to return only with an action that replaces a node of one of
\* its own replacements.
C9_Terminates ==
    (pc = "done" /\ Convergent(action)) => ~IsErr(out)

C9_Witness ==
    /\ pc = "done" /\ Convergent(action) /\ ~IsErr(out)
    /\ \E i \in DOMAIN calls :
         Answer(calls[i]) = List(<<Node0("Z"), Node("Y", List(<<Node0("W")>>))>>)
    /\ \E i \in DOMAIN calls : calls[i].t = Scalar("W")

\* walk does not return: the replacements are nested deeper than MaxRewalk.
Diverged == pc = "done" /\ IsErr(out)

(***************************************************************************)
(* stringify                                                               *)
(***************************************************************************)
\* `go` returns None for every call.
GoAction == [q \in {} |-> NoneV]

\* What `go` appends to result for one call.
Fragment(c) ==
    IF c.t \in {Scalar("Str"), Scalar("MetaString")} THEN <<c.c>>
    ELSE IF c.t = Scalar("Code") THEN <<c.c.items[2]>>
    ELSE IF c.t = Scalar("Math") THEN <<c.c.items[2]>>
    ELSE IF c.t = Scalar("LineBreak") THEN <<Scalar(" ")>>
    ELSE IF c.t = Scalar("SoftBreak") THEN <<Scalar(" ")>>
    ELSE IF c.t = Scalar("Space") THEN <<Scalar(" ")>>
    ELSE <<>>

RECURSIVE Fragments(_, _)
Fragments(cs, i) ==
    IF i > Len(cs) THEN <<>> ELSE Fragment(cs[i]) \o Fragments(cs, i + 1)

\* ''.join(result)
RECURSIVE Join(_, _)
Join(result, i) ==
    IF i > Len(result) THEN "" ELSE result[i].v \o Join(result, i + 1)

stringify(t) ==
    LET r == walk(t, GoAction, 0)
    IN [out |-> Scalar(Join(Fragments(r.calls, 1), 1)), calls |-> r.calls]

Attr(classes) == List(<<Scalar(""), List(classes), List(<<>>)>>)

TextLeaves ==
    { Node("Str", Scalar("a")), Node("Str", Scalar("b")), Node0("Space"),
      Node0("SoftBreak"), Node("LineBreak", List(<<>>)),
      Node("Code", List(<<Attr(<<>>), Scalar("c")>>)),
      Node("Math", List(<<Node0("InlineMath"), Scalar("m")>>)) }
TextTags == {"Emph", "Para"}
TextMetas == {Dict(<<>>), Dict(<<Pair("title", Node("MetaString", Scalar("T")))>>)}

DoStringify ==
    /\ pc = "build"
    /\ LET r == stringify(tree)
       IN /\ out' = r.out
          /\ calls' = r.calls
    /\ action' = GoAction
    /\ pc' = "done"
    /\ UNCHANGED <<tree, size, iters, ctor, args, source>>

\* stringify(tree), for the trees of text nodes
NextStringify ==
    \/ AddItem(TextLeaves)
    \/ MakeNode(TextTags)
    \/ WrapList
    \/ WrapDoc(TextMetas)
    \/ DoStringify

SpecStringify == InitBuild /\ [][NextStringify]_vars

\* C8: stringify returns the concatenation, in document order, of one
\* fragment for each text-bearing node of the tree: its text for Str,
\* MetaString, Code and Math, one space for LineBreak, SoftBreak and Space.
C8_AllText ==
    pc = "done" => out = Scalar(Join(Fragments(NodesOf(tree), 1), 1))

\* The example of the documentation: [Str("a"), Space(), Str("b")] gives "a b".
StringifyExample ==
    /\ pc = "done"
    /\ tree = List(<<Node("Str", Scalar("a")), Node0("Space"), Node("Str", Scalar("b"))>>)
    /\ out = Scalar("a b")

(***************************************************************************)
(* elt: the constructors of nodes                                          *)
(***************************************************************************)
MaxArgs == 6

Ctor(eltType, num_args) == [eltType |-> eltType, num_args |-> num_args]

Constructors ==
    { Ctor("Plain", 1), Ctor("Para", 1), Ctor("CodeBlock", 2),
      Ctor("RawBlock", 2), Ctor("BlockQuote", 1), Ctor("OrderedList", 2),
      Ctor("MetaInlines", 1), Ctor("MetaBlocks", 1), Ctor("BulletList", 1),
      Ctor("DefinitionList", 1), Ctor("Header", 3), Ctor("HorizontalRule", 0),
      Ctor("Table", 5), Ctor("Div", 2), Ctor("Null", 0),
      Ctor("Str", 1), Ctor("Emph", 1), Ctor("Strong", 1), Ctor("Strikeout", 1),
      Ctor("Superscript", 1), Ctor("Subscript", 1), Ctor("SmallCaps", 1),
      Ctor("Quoted", 2), Ctor("Cite", 2), Ctor("Code", 2), Ctor("Space", 0),
      Ctor("LineBreak", 0), Ctor("Math", 2), Ctor("MetaString", 1),
      Ctor("RawInline", 2), Ctor("Link", 3), Ctor("Image", 3), Ctor("Note", 1),
      Ctor("SoftBreak", 0), Ctor("Span", 2) }

\* ValueError(f'{eltType} except {num_args} arguments, but given {len_args}')
ValueError(eltType, num_args, len_args) ==
    [k |-> "err", v |-> "ValueError",
     msg |-> [eltType |-> eltType, num_args |-> num_args, len_args |-> len_args]]

\* Mutant of elt: only too few arguments are refused.
elt_atleast(eltType, num_args, a) ==
    IF Len(a) < num_args THEN ValueError(eltType, num_args, Len(a))
    ELSE Node(eltType, IF num_args = 0 THEN List(<<>>)
                       ELSE IF Len(a) = 1 THEN a[1] ELSE List(a))

\* elt(eltType, num_args)(*a)
elt(eltType, num_args, a) ==
    LET len_args == Len(a)
    IN IF len_args # num_args THEN ValueError(eltType, num_args, len_args)
       ELSE Node(eltType, IF num_args = 0 THEN List(<<>>)
                          ELSE IF Len(a) = 1 THEN a[1]
                          ELSE List(a))

ArgValues == {Scalar("x"), List(<<Scalar("x")>>)}

InitElt ==
    /\ ctor \in Constructors
    /\ args = <<>>
    /\ pc = "build"
    /\ tree = NoneV
    /\ size = 0
    /\ action = NotRun
    /\ out = NotRun
    /\ calls = <<>>
    /\ iters = <<>>
    /\ source = <<>>

AddArg ==
    /\ pc = "build" /\ Len(args) < MaxArgs
    /\ \E v \in ArgValues : args' = Append(args, v)
    /\ UNCHANGED <<tree, size, pc, action, out, calls, iters, ctor, source>>

DoCall ==
    /\ pc = "build"
    /\ out' = elt(ctor.eltType, ctor.num_args, args)
    /\ pc' = "done"
    /\ UNCHANGED <<tree, size, action, calls, iters, ctor, args, source>>

\* a call of one of the constructors
NextElt == AddArg \/ DoCall

SpecElt == InitElt /\ [][NextElt]_vars

\* C7 as claimed: a constructor of arity n called with m arguments fails,
\* naming the tag, n and m, when m differs from n, and otherwise returns the
\* node of its tag whose content is absent for n = 0, the argument itself
\* for n = 1 and the list of the arguments for n > 1.
C7_ContentAbsent ==
    pc = "done" =>
        IF Len(args) # ctor.num_args
        THEN out = ValueError(ctor.eltType, ctor.num_args, Len(args))
        ELSE out = IF ctor.num_args = 0 THEN Node0(ctor.eltType)
                   ELSE IF ctor.num_args = 1 THEN Node(ctor.eltType, args[1])
                   ELSE Node(ctor.eltType, List(args))

\* C7 as amended: the same, but for n = 0 the content is the empty list.
C7_ContentEmptyList ==
    pc = "done" =>
        IF Len(args) # ctor.num_args
        THEN out = ValueError(ctor.eltType, ctor.num_args, Len(args))
        ELSE out = IF ctor.num_args = 0 THEN Node(ctor.eltType, List(<<>>))
                   ELSE IF ctor.num_args = 1 THEN Node(ctor.eltType, args[1])
                   ELSE Node(ctor.eltType, List(args))

C7_Witness ==
    /\ pc = "done"
    /\ ctor = Ctor("Space", 0) /\ args = <<>>
    /\ out = Node("Space", List(<<>>))

(***************************************************************************)
(* get_code_in_para (mdpdf.py)                                             *)
(***************************************************************************)
IsTag(x, tag) == IsDict(x) /\ HasKey(x, "t") /\ Get(x, "t") = Scalar(tag)

\* RawInline('latex', '\n' f'{block_c_begin}\n' f'{block["c"][1]}\n' '\\end{lstlisting}')
Listing(block) ==
    LET classes == Get(block, "c").items[1].items[2].items
        block_c_begin ==
            IF Len(classes) > 0
            THEN "\\begin{lstlisting}[language=" \o classes[1].v \o "]\n"
            ELSE "\\begin{lstlisting}"
        code == Get(block, "c").items[2].v
    IN elt("RawInline", 2,
           <<Scalar("latex"),
             Scalar("\n" \o block_c_begin \o "\n" \o code \o "\n"
                    \o "\\end{lstlisting}")>>)

\* node['c'].append(x)
AppendContent(node, x) ==
    Dict([i \in DOMAIN node.kv |->
            IF node.kv[i].key = "c"
            THEN Pair("c", List(Append(node.kv[i].val.items, x)))
            ELSE node.kv[i]])

\* Mutant of DeleteAt: the element before the index is deleted.
DeleteAt_before(items, index) ==
    [j \in 1..(Len(items) - 1) |-> IF j < index - 1 THEN items[j] ELSE items[j + 1]]

\* del tree[index]
DeleteAt(items, index) ==
    [j \in 1..(Len(items) - 1) |-> IF j < index THEN items[j] ELSE items[j + 1]]

\* The state of the loop `for index, block in enumerate(tree)`: the list,
\* which the loop changes in place, the position of the next element, and
\* per_block: None, the element of the list at a position (k = "ref"), or a
\* node that is not in the list.
Loop(items, index, per, err) ==
    [items |-> items, index |-> index, per |-> per, err |-> err]

Ref(pos) == [k |-> "ref", pos |-> pos]

PerBlock(st) == IF st.per.k = "ref" THEN st.items[st.per.pos] ELSE st.per

\* `per_block and ...`: None and the empty dict are false
Truthy(x) == x # NoneV /\ x # Dict(<<>>)

\* one iteration of the loop
MergeIter(st) ==
    LET block == st.items[st.index]
    IN IF ~HasKey(block, "t")
       THEN Loop(st.items, st.index, st.per, Err("KeyError"))
       ELSE IF /\ Get(block, "t") = Scalar("CodeBlock")
               /\ Truthy(PerBlock(st))
               /\ Get(PerBlock(st), "t") = Scalar("Para")
       THEN LET raw == Listing(block)
                appended == [st.items EXCEPT
                               ![st.per.pos] = AppendContent(@, raw)]
            IN Loop(DeleteAt(appended, st.index), st.index + 1, raw, NoneV)
       ELSE Loop(st.items, st.index + 1, Ref(st.index), NoneV)

\* What one iteration did: the list before and after, the position of the
\* element examined, the value of per_block before.
Iteration(st, nx) ==
    [before |-> st.items, index |-> st.index, per |-> PerBlock(st),
     after |-> nx.items]

RECURSIVE MergeLoop(_, _)
MergeLoop(st, trace) ==
    IF IsErr(st.err) THEN [out |-> st.err, iters |-> trace]
    ELSE IF st.index > Len(st.items) THEN [out |-> List(st.items), iters |-> trace]
    ELSE LET nx == MergeIter(st)
         IN MergeLoop(nx, Append(trace, Iteration(st, nx)))

RECURSIVE get_code_in_para(_)

\* [get_code_in_para(ele) for ele in tree], and the values of a dict
RECURSIVE MergeEach(_, _, _, _)
MergeEach(vals, i, acc, trace) ==
    IF i > Len(vals) THEN [out |-> acc, err |-> NoneV, iters |-> trace]
    ELSE LET r == get_code_in_para(vals[i])
         IN IF IsErr(r.out)
            THEN [out |-> acc, err |-> r.out, iters |-> trace \o r.iters]
            ELSE MergeEach(vals, i + 1, Append(acc, r.out), trace \o r.iters)

get_code_in_para(t) ==
    IF IsList(t)
    THEN IF /\ \A i \in DOMAIN t.items : IsDict(t.items[i])
            /\ \E i \in DOMAIN t.items : IsTag(t.items[i], "CodeBlock")
         THEN MergeLoop(Loop(t.items, 1, NoneV, NoneV), <<>>)
         ELSE LET r == MergeEach(t.items, 1, <<>>, <<>>)
              IN [out |-> IF IsErr(r.err) THEN r.err ELSE List(r.out),
                  iters |-> r.iters]
    ELSE IF IsDict(t)
    THEN LET r == MergeEach([i \in DOMAIN t.kv |-> t.kv[i].val], 1, <<>>, <<>>)
         IN [out |-> IF IsErr(r.err) THEN r.err
                     ELSE Dict([i \in DOMAIN t.kv |-> Pair(t.kv[i].key, r.out[i])]),
             iters |-> r.iters]
    ELSE [out |-> t, iters |-> <<>>]

ParaHi == Node("Para", List(<<Node("Str", Scalar("hi"))>>))
CodeBlockPy == Node("CodeBlock", List(<<Attr(<<Scalar("py")>>), Scalar("print(1)")>>))
CodeBlockPlain == Node("CodeBlock", List(<<Attr(<<>>), Scalar("ls")>>))

MergeLeaves ==
    { ParaHi, CodeBlockPy, CodeBlockPlain, Node0("HorizontalRule"),
      Dict(<<Pair("k", Scalar("a"))>>) }
MergeTags == {"BlockQuote"}
MergeMetas == {Dict(<<>>)}

DoGetCodeInPara ==
    /\ pc = "build"
    /\ LET r == get_code_in_para(tree)
       IN /\ out' = r.out
          /\ iters' = r.iters
    /\ pc' = "done"
    /\ UNCHANGED <<tree, size, action, calls, ctor, args, source>>

\* doc = get_code_in_para(doc), for the documents of blocks
NextMerge ==
    \/ AddItem(MergeLeaves)
    \/ MakeNode(MergeTags)
    \/ WrapList
    \/ WrapDoc(MergeMetas)
    \/ DoGetCodeInPara

SpecMerge == InitBuild /\ [][NextMerge]_vars

\* What C6 describes: in every list of nodes, each CodeBlock whose preceding
\* element in the input is a Para is removed and its listing is appended to
\* the content of that Para.
RECURSIVE Merged(_)
RECURSIVE MergedList(_, _, _)
MergedList(items, i, acc) ==
    IF i > Len(items) THEN acc
    ELSE IF i > 1 /\ IsTag(items[i], "CodeBlock") /\ IsTag(items[i - 1], "Para")
    THEN MergedList(items, i + 1,
                    [acc EXCEPT ![Len(acc)] = AppendContent(@, Listing(items[i]))])
    ELSE MergedList(items, i + 1, Append(acc, Merged(items[i])))
Merged(t) ==
    IF IsList(t)
    THEN IF \A i \in DOMAIN t.items : IsDict(t.items[i]) /\ HasKey(t.items[i], "t")
         THEN List(MergedList(t.items, 1, <<>>))
         ELSE List([i \in DOMAIN t.items |-> Merged(t.items[i])])
    ELSE IF IsDict(t)
    THEN Dict([i \in DOMAIN t.kv |-> Pair(t.kv[i].key, Merged(t.kv[i].val))])
    ELSE t

\* Every dict that is an element of a list of the tree is a node.
RECURSIVE AllTagged(_)
AllTagged(t) ==
    IF IsList(t)
    THEN \A i \in DOMAIN t.items :
            /\ IsDict(t.items[i]) => HasKey(t.items[i], "t")
            /\ AllTagged(t.items[i])
    ELSE IF IsDict(t) THEN \A i \in DOMAIN t.kv : AllTagged(t.kv[i].val)
    ELSE TRUE

\* C6: after one run of get_code_in_para, in every list of nodes of the
\* document, every CodeBlock whose preceding element in the input is a Para
\* has been removed and its code appended, as one raw listing node, to the
\* content of that Para, also when a list holds several such pairs.
C6_AllMerged ==
    (pc = "done" /\ ~IsErr(out) /\ AllTagged(tree)) => out = Merged(tree)

\* The example of the documentation: [Para, CodeBlock] gives one Para.
MergeExample ==
    /\ pc = "done"
    /\ tree = List(<<ParaHi, CodeBlockPy>>)
    /\ out = List(<<AppendContent(ParaHi,
                 Node("RawInline", List(<<Scalar("latex"),
                     Scalar("\n\\begin{lstlisting}[language=py]\n\nprint(1)\n\\end{lstlisting}")>>)))>>)

IsListing(x) == IsTag(x, "RawInline")
NotCodeBlock(x) == ~IsTag(x, "CodeBlock")
NotListing(x) == ~IsListing(x)

\* A node without the listings appended to its content.
Unmerged(x) ==
    IF IsTag(x, "Para")
    THEN Node("Para", List(SelectSeq(Get(x, "c").items, NotListing)))
    ELSE x

\* The number of listings in the contents of the Paras of a list.
RECURSIVE Listings(_, _)
Listings(items, i) ==
    IF i > Len(items) THEN 0
    ELSE (IF IsTag(items[i], "Para")
          THEN Len(SelectSeq(Get(items[i], "c").items, IsListing)) ELSE 0)
         + Listings(items, i + 1)

\* One iteration of the loop deletes an element only if it is a CodeBlock
\* and the element before it, examined by the iteration before, is a Para;
\* it then appends one raw node to the content of that Para and changes
\* nothing else; an iteration that deletes nothing changes nothing.
IterationOK(i) ==
    LET r == iters[i]
    IN IF r.after # r.before
       THEN /\ IsTag(r.before[r.index], "CodeBlock")
            /\ r.index > 1 /\ i > 1
            /\ iters[i - 1].after = r.before
            /\ iters[i - 1].index = r.index - 1
            /\ iters[i - 1].before[r.index - 1] = r.per
            /\ IsTag(r.per, "Para")
            /\ Len(r.after) = Len(r.before) - 1
            /\ \A j \in 1..(r.index - 2) : r.after[j] = r.before[j]
            /\ \A j \in (r.index + 1)..Len(r.before) : r.after[j - 1] = r.before[j]
            /\ \E raw \in {r.after[r.index - 1].kv[2].val.items[
                              Len(r.after[r.index - 1].kv[2].val.items)]} :
                 /\ IsListing(raw)
                 /\ r.after[r.index - 1] = AppendContent(r.per, raw)
       ELSE TRUE

\* C10: in every iteration of the merge loop an element is deleted only if
\* it is a CodeBlock and the element examined in the iteration before was a
\* Para, and each deletion appends exactly one raw node to the content of
\* that Para; so the pass removes or reorders no element that is not a
\* CodeBlock, and removes as many elements from a list as it appends
\* listings to the Paras of the list.
C10_MergeLoop ==
    (pc = "done" /\ ~IsErr(out)) =>
        /\ \A i \in DOMAIN iters : IterationOK(i)
        /\ (IsList(tree) /\ iters # <<>> /\ iters[1].before = tree.items) =>
             /\ [j \in DOMAIN SelectSeq(out.items, NotCodeBlock) |->
                    Unmerged(SelectSeq(out.items, NotCodeBlock)[j])]
                  = SelectSeq(tree.items, NotCodeBlock)
             /\ Len(tree.items) - Len(out.items)
                  = Listings(out.items, 1) - Listings(tree.items, 1)

C10_Witness ==
    /\ pc = "done" /\ ~IsErr(out)
    /\ tree = List(<<Node0("HorizontalRule"), ParaHi, CodeBlockPlain, CodeBlockPy>>)
    /\ Len(iters) = 3
    /\ Len(out.items) = 3
    /\ Listings(out.items, 1) = 1

(***************************************************************************)
(* applyJSONFilters.  A JSON text is modelled as its sequence of tokens.   *)
(***************************************************************************)
MaxActions == 2

Tok(ty, v) == [ty |-> ty, v |-> v]

\* json.dumps
RECURSIVE Dumps(_)
RECURSIVE DumpsItems(_, _)
RECURSIVE DumpsMembers(_, _)
DumpsItems(items, i) ==
    IF i > Len(items) THEN <<>>
    ELSE (IF i > 1 THEN <<Tok(",", "")>> ELSE <<>>)
         \o Dumps(items[i]) \o DumpsItems(items, i + 1)
DumpsMembers(kv, i) ==
    IF i > Len(kv) THEN <<>>
    ELSE (IF i > 1 THEN <<Tok(",", "")>> ELSE <<>>)
         \o <<Tok("str", kv[i].key), Tok(":", "")>>
         \o Dumps(kv[i].val) \o DumpsMembers(kv, i + 1)
Dumps(t) ==
    IF IsList(t) THEN <<Tok("[", "")>> \o DumpsItems(t.items, 1) \o <<Tok("]", "")>>
    ELSE IF IsDict(t) THEN <<Tok("{", "")>> \o DumpsMembers(t.kv, 1) \o <<Tok("}", "")>>
    ELSE IF t = NoneV THEN <<Tok("null", "")>>
    ELSE <<Tok("str", t.v)>>

\* json.loads: the value that starts at position p and the position after
\* it; next = 0 when there is no value there (JSONDecodeError).
Parsed(val, next) == [val |-> val, next |-> next]
NoParse == Parsed(NoneV, 0)
TokAt(toks, p) == IF p \in DOMAIN toks THEN toks[p].ty ELSE "eof"

RECURSIVE ParseValue(_, _)
RECURSIVE ParseItems(_, _, _)
RECURSIVE ParseMembers(_, _, _)
ParseItems(toks, p, acc) ==
    LET r == ParseValue(toks, p)
    IN IF r.next = 0 THEN NoParse
       ELSE IF TokAt(toks, r.next) = ","
       THEN ParseItems(toks, r.next + 1, Append(acc, r.val))
       ELSE IF TokAt(toks, r.next) = "]"
       THEN Parsed(List(Append(acc, r.val)), r.next + 1)
       ELSE NoParse
ParseMembers(toks, p, acc) ==
    IF TokAt(toks, p) # "str" \/ TokAt(toks, p + 1) # ":" THEN NoParse
    ELSE LET r == ParseValue(toks, p + 2)
         IN IF r.next = 0 THEN NoParse
            ELSE IF TokAt(toks, r.next) = ","
            THEN ParseMembers(toks, r.next + 1, Append(acc, Pair(toks[p].v, r.val)))
            ELSE IF TokAt(toks, r.next) = "}"
            THEN Parsed(Dict(Append(acc, Pair(toks[p].v, r.val))), r.next + 1)
            ELSE NoParse
ParseValue(toks, p) ==
    IF TokAt(toks, p) = "str" THEN Parsed(Scalar(toks[p].v), p + 1)
    ELSE IF TokAt(toks, p) = "null" THEN Parsed(NoneV, p + 1)
    ELSE IF TokAt(toks, p) = "["
    THEN IF TokAt(toks, p + 1) = "]" THEN Parsed(List(<<>>), p + 2)
         ELSE ParseItems(toks, p + 1, <<>>)
    ELSE IF TokAt(toks, p) = "{"
    THEN IF TokAt(toks, p + 1) = "}" THEN Parsed(Dict(<<>>), p + 2)
         ELSE ParseMembers(toks, p + 1, <<>>)
    ELSE NoParse

Loads(toks) ==
    LET r == ParseValue(toks, 1)
    IN IF r.next = Len(toks) + 1 THEN r.val ELSE Err("JSONDecodeError")

\* for action in actions: doc = walk(doc, action, format, meta)
RECURSIVE WalkAll(_, _, _, _)
WalkAll(actions, i, doc, cs) ==
    IF i > Len(actions) THEN Ret(doc, cs)
    ELSE LET r == walk(doc, actions[i], 0)
         IN IF IsErr(r.out) THEN Ret(r.out, cs \o r.calls)
            ELSE WalkAll(actions, i + 1, r.out, cs \o r.calls)

\* The text a call returns.
Text(toks) == [k |-> "text", toks |-> toks]

\* applyJSONFilters(actions, source, format).  The name `altered` of the
\* return statement is bound nowhere: evaluating it raises NameError.
applyJSONFilters(actions, src) ==
    LET doc == Loads(src)
    IN IF IsErr(doc) THEN Ret(doc, <<>>)
       ELSE IF ~IsDict(doc) THEN Ret(Err("AttributeError"), <<>>)
       ELSE LET r == WalkAll(actions, 1, doc, <<>>)
            IN IF IsErr(r.out) THEN r
               ELSE Ret(Err("NameError"), r.calls)

FilterActions ==
    { [q \in ActKeys |-> NoneV],
      [q \in ActKeys |-> IF q[2] THEN Node("Y", List(<<Node0("X")>>)) ELSE NoneV],
      [q \in ActKeys |-> IF q[2] THEN NoneV ELSE List(<<Node0("Z")>>)],
      [q \in ActKeys |-> IF q[2] THEN NoneV ELSE Node("Y", List(<<Node0("X")>>))] }

ActionLists ==
    UNION {[1..n -> FilterActions] : n \in 0..MaxActions}

\* The texts handed to the filter: the serialised tree, whole or cut short.
Sources(t) ==
    {Dumps(t), SubSeq(Dumps(t), 1, Len(Dumps(t)) - 1)}

DoApplyJSONFilters ==
    /\ pc = "build"
    /\ \E acts \in ActionLists, src \in Sources(tree) :
         LET r == applyJSONFilters(acts, src)
         IN /\ action' = acts
            /\ source' = src
            /\ out' = r.out
            /\ calls' = r.calls
    /\ pc' = "done"
    /\ UNCHANGED <<tree, size, iters, ctor, args>>

\* applyJSONFilters(actions, source, format), for the texts above
NextFilters ==
    \/ AddItem(WalkLeaves)
    \/ MakeNode(WalkTags)
    \/ WrapList
    \/ WrapDoc(Metas)
    \/ DoApplyJSONFilters

SpecFilters == InitBuild /\ [][NextFilters]_vars

\* C5: on a well-formed serialised document, applyJSONFilters returns the
\* serialisation of the document obtained by walking it with each action in
\* turn; with no action, or actions that change nothing, the returned text
\* deserialises to the input document.
C5_ReturnsFiltered ==
    (/\ pc = "done"
     /\ IsDict(Loads(source))
     /\ ~IsErr(WalkAll(action, 1, Loads(source), <<>>).out)) =>
        /\ out.k = "text"
        /\ Loads(out.toks) = WalkAll(action, 1, Loads(source), <<>>).out

\* Serialising and deserialising a tree gives the tree back.
RoundTrip == Loads(Dumps(tree)) = tree

====
